---------------------------- MODULE Spec2Model ----------------------------
(***************************************************************************)
(* Model of the retrieval core of the document question-answering bot      *)
(* (src/server.py): the chunker DocumentProcessor.process_pdf, the vector  *)
(* store FAISSIndex (add_vectors, search, save, load) and the orchestrator *)
(* RAGModel (construction, index_document, query, clear_index).            *)
(*                                                                         *)
(* Text is a sequence of one-character strings.  A vector is a sequence of *)
(* integers; squared L2 distances are computed exactly on integers, so     *)
(* float32 rounding is not modelled.  The library calls the code makes are *)
(* modelled by what they do: Python's str.split / str.strip / str.join,    *)
(* json.dump / json.load, SentenceTransformer.encode (an opaque but        *)
(* deterministic text -> vector function), and faiss.IndexFlatL2 with its  *)
(* Python wrapper (add, search, write_index, read_index) as of faiss 1.7.  *)
(***************************************************************************)
EXTENDS Integers, Sequences, FiniteSets, TLC

VARIABLES
    alive,       \* TRUE while a RAGModel instance exists in the process
    index,       \* RAGModel.index, a FAISSIndex: [index |-> [d, xb], chunks]
    indexFile,   \* data/faiss.index: [exists, data]
    chunksFile,  \* data/chunks.json: [exists, data]
    other,       \* a second, fresh FAISSIndex used as the target of load
    pdf,         \* the document handed to the chunker (a sequence of pages)
    lastOp,      \* the last call made, its arguments and its outcome
    prev         \* the call before the last, if a clear_index or save that returned

vars == <<alive, index, indexFile, chunksFile, other, pdf, lastOp, prev>>

---------------------------------------------------------------------------
(* Program constants.                                                      *)

\* server.py:28  if len(paragraph) > 512
MaxParagraphLen == 512

\* server.py:30  range(0, len(words), 100) and words[i:i + 100]
WordsPerChunk == 100

\* The number of components of a vector in the model.  The code uses 384
\* twice: as the default of FAISSIndex.__init__ and as the output size of
\* the encoder 'all-MiniLM-L6-v2'; the model scales both down together.
Dim == 2

\* server.py:43  FAISSIndex.__init__(self, dimension: int = 384)
dimension == Dim

\* server.py:15  the encoder's output size
EncoderDim == Dim

\* The distance faiss pads a result row with when fewer than k vectors
\* exist (FLT_MAX); any number above every real distance of the model.
FLT_MAX == 1000000

---------------------------------------------------------------------------
(* Python strings.                                                         *)

NL == "\n"

Whitespace == {" ", "\n", "\t"}

IsWS(c) == c \in Whitespace

\* The positions lo..hi that satisfy P, in increasing order.
RECURSIVE Positions(_, _, _)
Positions(P(_), lo, hi) ==
    IF lo > hi THEN <<>>
    ELSE IF lo = hi THEN (IF P(lo) THEN <<lo>> ELSE <<>>)
    ELSE LET mid == (lo + hi) \div 2
         IN  Positions(P, lo, mid) \o Positions(P, mid + 1, hi)

\* str.strip(): leading and trailing whitespace removed.
Strip(s) ==
    LET keep == {i \in 1..Len(s) : ~IsWS(s[i])}
    IN  IF keep = {} THEN <<>>
        ELSE LET lo == CHOOSE i \in keep : \A j \in keep : i <= j
                 hi == CHOOSE i \in keep : \A j \in keep : j <= i
             IN  SubSeq(s, lo, hi)

\* The first position of the run of newlines that position i lies in.
RECURSIVE RunStart(_, _)
RunStart(s, i) ==
    IF i > 1 /\ s[i - 1] = NL THEN RunStart(s, i - 1) ELSE i

\* str.split('\n\n'): the separator is matched left to right without
\* overlap, so inside a run of newlines it starts at every second position.
SplitParagraphs(s) ==
    LET n == Len(s)
        IsSep(i) == /\ i < n
                    /\ s[i] = NL
                    /\ s[i + 1] = NL
                    /\ (i - RunStart(s, i)) % 2 = 0
        seps == Positions(IsSep, 1, n)
        m == Len(seps)
    IN  [k \in 1..(m + 1) |->
            SubSeq(s, IF k = 1 THEN 1 ELSE seps[k - 1] + 2,
                      IF k = m + 1 THEN n ELSE seps[k] - 1)]

\* str.split(): the maximal runs of non-whitespace characters, in order.
SplitWords(s) ==
    LET n == Len(s)
        IsStart(i) == ~IsWS(s[i]) /\ (i = 1 \/ IsWS(s[i - 1]))
        IsEnd(i) == ~IsWS(s[i]) /\ (i = n \/ IsWS(s[i + 1]))
        starts == Positions(IsStart, 1, n)
        ends == Positions(IsEnd, 1, n)
    IN  [k \in 1..Len(starts) |-> SubSeq(s, starts[k], ends[k])]

\* ' '.join(ws[lo..hi])
RECURSIVE JoinRange(_, _, _)
JoinRange(ws, lo, hi) ==
    IF lo > hi THEN <<>>
    ELSE IF lo = hi THEN ws[lo]
    ELSE LET mid == (lo + hi) \div 2
         IN  JoinRange(ws, lo, mid) \o <<" ">> \o JoinRange(ws, mid + 1, hi)

Join(ws) == JoinRange(ws, 1, Len(ws))

Min(a, b) == IF a <= b THEN a ELSE b

\* s[i:j] of Python, 0-based and clipped to the list.
Slice(s, i, j) == SubSeq(s, i + 1, Min(j, Len(s)))

RECURSIVE Flatten(_)
Flatten(ss) ==
    IF ss = <<>> THEN <<>> ELSE Head(ss) \o Flatten(Tail(ss))

---------------------------------------------------------------------------
(* DocumentProcessor.process_pdf                                           *)

\* The chunks of the word list from 0-based offset i on (the inner loop).
RECURSIVE WordGroupsFrom(_, _)
WordGroupsFrom(words, i) ==
    IF i >= Len(words) THEN <<>>
    ELSE LET chunk == Join(Slice(words, i, i + WordsPerChunk))
         IN  (IF chunk # <<>> THEN <<chunk>> ELSE <<>>)
                 \o WordGroupsFrom(words, i + WordsPerChunk)

\* ChunkParagraph with the threshold one character lower.
ChunkParagraphAtLeast(paragraph) ==
    IF Len(paragraph) >= MaxParagraphLen
    THEN WordGroupsFrom(SplitWords(paragraph), 0)
    ELSE <<paragraph>>

ChunkParagraph(paragraph) ==
    IF Len(paragraph) > MaxParagraphLen
    THEN WordGroupsFrom(SplitWords(paragraph), 0)
    ELSE <<paragraph>>

\* The paragraphs of one page: stripped, the empty ones left out.
StripAll(parts) ==
    SelectSeq([k \in 1..Len(parts) |-> Strip(parts[k])], LAMBDA p : p # <<>>)

Paragraphs(text) == StripAll(SplitParagraphs(text))

ChunkAll(ps) == Flatten([k \in 1..Len(ps) |-> ChunkParagraph(ps[k])])

ChunkPage(text) == ChunkAll(Paragraphs(text))

ProcessPdf(pages) == Flatten([k \in 1..Len(pages) |-> ChunkPage(pages[k])])

---------------------------------------------------------------------------
(* DocumentProcessor.create_embeddings and the encoder.                    *)

\* SentenceTransformer.encode of one text: opaque to the program.  The
\* model fixes a deterministic function of the text into EncoderDim
\* numbers; equal texts embed equally and distinct texts may collide.
Embed(text) ==
    [i \in 1..EncoderDim |->
        IF i = 1 THEN Len(text) % 4
        ELSE IF i = 2 THEN (IF text # <<>> /\ text[1] = "b" THEN 2 ELSE 0)
        ELSE 0]

\* encode(list, convert_to_numpy=True): an array of shape (n, EncoderDim);
\* of an empty list it is np.asarray([]), whose shape is (0,).
Encode(texts) ==
    IF texts = <<>>
    THEN [shape |-> <<0>>, rows |-> <<>>]
    ELSE [shape |-> <<Len(texts), EncoderDim>>,
          rows |-> [k \in 1..Len(texts) |-> Embed(texts[k])]]

CreateEmbeddings(cs) == Encode(cs)

---------------------------------------------------------------------------
(* faiss.IndexFlatL2 and its Python wrapper.                               *)

\* faiss.IndexFlatL2(d): no vectors yet.
NewFlatL2(d) == [d |-> d, xb |-> <<>>]

Ntotal(ix) == Len(ix.xb)

\* index.add(x): "n, d = x.shape" then "assert d == self.d", then the rows
\* are appended to the store.
FaissAdd(ix, x) ==
    IF Len(x.shape) # 2
    THEN [ok |-> FALSE, error |-> "ValueError", index |-> ix]
    ELSE IF x.shape[2] # ix.d
    THEN [ok |-> FALSE, error |-> "AssertionError", index |-> ix]
    ELSE [ok |-> TRUE, error |-> "", index |-> [ix EXCEPT !.xb = @ \o x.rows]]

Sq(a) == a * a

RECURSIVE SumSq(_, _, _, _)
SumSq(u, v, lo, hi) ==
    IF lo > hi THEN 0
    ELSE IF lo = hi THEN Sq(u[lo] - v[lo])
    ELSE LET mid == (lo + hi) \div 2
         IN  SumSq(u, v, lo, mid) + SumSq(u, v, mid + 1, hi)

\* Squared L2 distance of two vectors of the same length.
L2Sqr(u, v) == SumSq(u, v, 1, Len(u))

\* The k nearest of the stored vectors, given the distance of each, in
\* ascending (distance, id) order; the row is padded to k entries with
\* distance FLT_MAX and label -1.  Labels are 0-based positions.
Nearest(dists, k) ==
    LET n == Len(dists)
        Before(i, j) == dists[i] < dists[j] \/ (dists[i] = dists[j] /\ i < j)
        rank(j) == Cardinality({i \in 1..n : Before(i, j)}) + 1
        at == [r \in 1..n |-> CHOOSE j \in 1..n : rank(j) = r]
    IN  [ok |-> TRUE, error |-> "",
         D |-> [r \in 1..k |-> IF r <= n THEN dists[at[r]] ELSE FLT_MAX],
         I |-> [r \in 1..k |-> IF r <= n THEN at[r] - 1 ELSE -1]]

\* index.search(x, k) for one query row: "assert d == self.d", "assert
\* k > 0", then the exhaustive search.
FaissSearch(ix, q, k) ==
    IF Len(q) # ix.d
    THEN [ok |-> FALSE, error |-> "AssertionError", D |-> <<>>, I |-> <<>>]
    ELSE IF ~(k > 0)
    THEN [ok |-> FALSE, error |-> "AssertionError", D |-> <<>>, I |-> <<>>]
    ELSE Nearest([j \in 1..Ntotal(ix) |-> L2Sqr(q, ix.xb[j])], k)

\* list[idx] of Python: a negative idx counts from the end, and an idx
\* outside the list raises IndexError.
PyIndexOk(list, idx) == -Len(list) <= idx /\ idx < Len(list)

PyIndex(list, idx) == IF idx < 0 THEN list[Len(list) + idx + 1] ELSE list[idx + 1]

\* faiss.write_index: the header (d, ntotal) and then the stored vectors
\* as one flat array.
WriteIndex(ix) == <<ix.d, Ntotal(ix)>> \o Flatten(ix.xb)

\* faiss.read_index: the header gives d and ntotal, the flat array after
\* it is cut into ntotal rows of d numbers.
ReadIndex(data) ==
    LET d == data[1]
        n == data[2]
    IN  [d |-> d,
         xb |-> [k \in 1..n |-> SubSeq(data, 2 + (k - 1) * d + 1, 2 + k * d)]]

\* A file cut off while it was written cannot be read back.
ReadableIndex(data) == Len(data) >= 2 /\ Len(data) = 2 + data[1] * data[2]

---------------------------------------------------------------------------
(* json.dump and json.load of a list of strings.                           *)

Quote == "\""

Backslash == "\\"

Tab == "\t"

\* JsonEscape with the quote written as it is.
JsonEscapeKeepsQuote(c) ==
    IF c = Backslash THEN <<Backslash, Backslash>>
    ELSE IF c = NL THEN <<Backslash, "n">>
    ELSE IF c = Tab THEN <<Backslash, "t">>
    ELSE <<c>>

\* One character inside a JSON string literal.
JsonEscape(c) ==
    IF c = Quote THEN <<Backslash, Quote>>
    ELSE IF c = Backslash THEN <<Backslash, Backslash>>
    ELSE IF c = NL THEN <<Backslash, "n">>
    ELSE IF c = Tab THEN <<Backslash, "t">>
    ELSE <<c>>

JsonString(s) ==
    <<Quote>> \o Flatten([k \in 1..Len(s) |-> JsonEscape(s[k])]) \o <<Quote>>

RECURSIVE JsonItems(_, _)
JsonItems(list, k) ==
    IF k > Len(list) THEN <<>>
    ELSE (IF k > 1 THEN <<",", " ">> ELSE <<>>)
             \o JsonString(list[k]) \o JsonItems(list, k + 1)

\* json.dump(list, f): ["...", "..."]
JsonDump(list) == <<"[">> \o JsonItems(list, 1) \o <<"]">>

JsonFail == [ok |-> FALSE, val |-> <<>>, next |-> 0]

RECURSIVE SkipWS(_, _)
SkipWS(t, i) == IF i <= Len(t) /\ IsWS(t[i]) THEN SkipWS(t, i + 1) ELSE i

\* The body of a string literal from position i on, up to its closing quote.
RECURSIVE ScanString(_, _, _)
ScanString(t, i, acc) ==
    IF i > Len(t) THEN JsonFail
    ELSE IF t[i] = Quote THEN [ok |-> TRUE, val |-> acc, next |-> i + 1]
    ELSE IF t[i] = Backslash
    THEN IF i + 1 > Len(t) THEN JsonFail
         ELSE IF t[i + 1] = "n" THEN ScanString(t, i + 2, Append(acc, NL))
         ELSE IF t[i + 1] = "t" THEN ScanString(t, i + 2, Append(acc, Tab))
         ELSE IF t[i + 1] \in {Quote, Backslash}
         THEN ScanString(t, i + 2, Append(acc, t[i + 1]))
         ELSE JsonFail
    ELSE IF t[i] \in {NL, Tab} THEN JsonFail
    ELSE ScanString(t, i + 1, Append(acc, t[i]))

\* The items of a list after its first, from position i on.
RECURSIVE ScanItems(_, _, _)
RECURSIVE ScanItem(_, _, _)

\* After the string r has been read as one more item.
ItemRead(t, acc, r) ==
    IF ~r.ok THEN JsonFail ELSE ScanItems(t, r.next, Append(acc, r.val))

\* An item is expected at position s.
ScanItem(t, s, acc) ==
    IF s > Len(t) \/ t[s] # Quote THEN JsonFail
    ELSE ItemRead(t, acc, ScanString(t, s + 1, <<>>))

\* A comma or the closing bracket is expected at position j.
ScanSeparator(t, j, acc) ==
    IF j > Len(t) THEN JsonFail
    ELSE IF t[j] = "]" THEN [ok |-> TRUE, val |-> acc, next |-> j + 1]
    ELSE IF t[j] # "," THEN JsonFail
    ELSE ScanItem(t, SkipWS(t, j + 1), acc)

ScanItems(t, i, acc) == ScanSeparator(t, SkipWS(t, i), acc)

\* The first item or the closing bracket is expected at position j.
ScanFirst(t, j) ==
    IF j > Len(t) THEN JsonFail
    ELSE IF t[j] = "]" THEN [ok |-> TRUE, val |-> <<>>, next |-> j + 1]
    ELSE ScanItem(t, j, <<>>)

ScanList(t, i) == ScanFirst(t, SkipWS(t, i))

\* Only whitespace may follow the list.
ListRead(t, r) == IF r.ok /\ SkipWS(t, r.next) > Len(t) THEN r ELSE JsonFail

ScanDocument(t, i) ==
    IF i > Len(t) \/ t[i] # "[" THEN JsonFail ELSE ListRead(t, ScanList(t, i + 1))

\* json.load(f) of a file that holds a list of strings; anything else in
\* the file (an empty or cut-off file, text after the list) raises
\* JSONDecodeError.
JsonLoad(t) == ScanDocument(t, SkipWS(t, 1))

---------------------------------------------------------------------------
(* FAISSIndex                                                              *)

\* FAISSIndex(): an empty IndexFlatL2 of the default dimension, no chunks.
NewFAISSIndex == [index |-> NewFlatL2(dimension), chunks |-> <<>>]

\* self.chunks.extend(chunks), reached when self.index.add did not raise.
ExtendChunks(fi, r, cs) ==
    IF ~r.ok THEN [ok |-> FALSE, error |-> r.error, fi |-> fi]
    ELSE [ok |-> TRUE, error |-> "",
          fi |-> [index |-> r.index, chunks |-> fi.chunks \o cs]]

\* add_vectors: self.index.add(vectors), then self.chunks.extend(chunks).
\* Nothing compares the number of vectors with the number of chunks.
AddVectors(fi, vectors, cs) == ExtendChunks(fi, FaissAdd(fi.index, vectors), cs)

\* search: self.index.search(query_vector.reshape(1, -1), k)
Search(fi, queryVector, k) == FaissSearch(fi.index, queryVector, k)

AbsentFile == [exists |-> FALSE, data |-> <<>>]

FileOf(data) == [exists |-> TRUE, data |-> data]

SaveFaults == {"none", "open_index", "write_index", "open_chunks", "dump"}

\* The files after save has written written bytes to the index file and
\* dumped the text dumped to the chunks file, or has failed on the way.
SaveSteps(iFile, cFile, fault, written, dumped) ==
    IF fault = "open_index"
    THEN [ok |-> FALSE, error |-> "RuntimeError", iFile |-> iFile, cFile |-> cFile]
    ELSE IF fault = "write_index"
    THEN [ok |-> FALSE, error |-> "RuntimeError",
          iFile |-> FileOf(<<>>), cFile |-> cFile]
    ELSE IF fault = "open_chunks"
    THEN [ok |-> FALSE, error |-> "OSError",
          iFile |-> FileOf(written), cFile |-> cFile]
    ELSE IF fault = "dump"
    THEN [ok |-> FALSE, error |-> "OSError",
          iFile |-> FileOf(written), cFile |-> FileOf(<<>>)]
    ELSE [ok |-> TRUE, error |-> "",
          iFile |-> FileOf(written), cFile |-> FileOf(dumped)]

\* save: faiss.write_index(self.index, index_file), then the chunks file is
\* opened for writing (which empties it) and json.dump writes the list.
\* fault names the step at which the file system fails, if any: an open
\* that fails leaves the file as it was, a write that fails leaves it
\* cut off.
Save(fi, iFile, cFile, fault) ==
    SaveSteps(iFile, cFile, fault, WriteIndex(fi.index), JsonDump(fi.chunks))

\* self.chunks = json.load(f), after self.index has been replaced by ix.
LoadChunks(fi, ix, cFile, r) ==
    IF ~cFile.exists
    THEN [ok |-> FALSE, error |-> "FileNotFoundError",
          fi |-> [fi EXCEPT !.index = ix]]
    ELSE IF ~r.ok
    THEN [ok |-> FALSE, error |-> "JSONDecodeError",
          fi |-> [fi EXCEPT !.index = ix]]
    ELSE [ok |-> TRUE, error |-> "", fi |-> [index |-> ix, chunks |-> r.val]]

\* load: self.index = faiss.read_index(index_file), then self.chunks =
\* json.load of the chunks file.  The two counts are not compared.  A
\* failure of the second step leaves self.index already replaced.
Load(fi, iFile, cFile) ==
    IF ~iFile.exists \/ ~ReadableIndex(iFile.data)
    THEN [ok |-> FALSE, error |-> "RuntimeError", fi |-> fi]
    ELSE LoadChunks(fi, ReadIndex(iFile.data), cFile, JsonLoad(cFile.data))

---------------------------------------------------------------------------
(* The record of a call: what was called, with what, and how it ended.     *)

NoCall ==
    [op |-> "none", status |-> "ok", error |-> "", fault |-> "none",
     arg |-> <<>>, k |-> 0, ret |-> 0,
     contexts |-> <<>>, distances |-> <<>>, answer |-> <<>>]

Returned(op, arg, fault) ==
    [NoCall EXCEPT !.op = op, !.arg = arg, !.fault = fault]

Raised(op, arg, fault, error) ==
    [NoCall EXCEPT !.op = op, !.arg = arg, !.fault = fault,
                   !.status = "raised", !.error = error]

\* What the next but one call remembers of a call: its name, when it is a
\* clear_index or a save that returned.
Cleared(call) ==
    IF call.status = "ok" /\ call.op \in {"clear_index", "save"}
    THEN call.op ELSE "none"

---------------------------------------------------------------------------
(* Bounds and inputs of the model.                                         *)

\* The index of a RAGModel is not grown beyond this many vectors or this
\* many chunks.
MaxChunks == 3

\* query is called with top_k in 0..MaxTopK.
MaxTopK == 4

\* The uploaded documents, each a sequence of page texts.
DocTwo == << <<"a", Quote, NL, NL, "b">> >>

DocOne == << <<" ", "b", NL, Backslash>>, <<" ", NL>> >>

DocBlank == << <<NL, NL, " ">>, <<>> >>

Docs == {DocTwo, DocOne, DocBlank}

Questions == {<<"b">>}

---------------------------------------------------------------------------
(* RAGModel                                                                *)

\* __init__: a new FAISSIndex, loaded from the two files when both exist.
ConstructResult(iFile, cFile) ==
    IF iFile.exists /\ cFile.exists
    THEN Load(NewFAISSIndex, iFile, cFile)
    ELSE [ok |-> TRUE, error |-> "", fi |-> NewFAISSIndex]

\* The session after the constructor ended as r says.
Constructed(r, loaded) ==
    /\ alive' = r.ok
    /\ index' = IF r.ok THEN r.fi ELSE NewFAISSIndex
    /\ lastOp' = IF r.ok
                 THEN [Returned("construct", <<>>, "none") EXCEPT !.ret = loaded]
                 ELSE Raised("construct", <<>>, "none", r.error)

\* A session starts: init_rag_model() constructs the RAGModel.  When the
\* constructor raises, the session is left without one.
Construct ==
    /\ ~alive
    /\ Constructed(ConstructResult(indexFile, chunksFile),
                   IF indexFile.exists /\ chunksFile.exists THEN 1 ELSE 0)
    /\ prev' = Cleared(lastOp)
    /\ UNCHANGED <<indexFile, chunksFile, other, pdf>>

\* The session ends; its RAGModel and the index in memory are gone, the
\* two files stay.
Exit ==
    /\ alive
    /\ alive' = FALSE
    /\ index' = NewFAISSIndex
    /\ lastOp' = Returned("exit", <<>>, "none")
    /\ prev' = Cleared(lastOp)
    /\ UNCHANGED <<indexFile, chunksFile, other, pdf>>

IndexFaults == {"none", "pdf"} \cup (SaveFaults \ {"none"})

\* self.index.save(...) and "return len(chunks)", after add_vectors
\* extended the index to fi.
SaveAndReturn(fi, doc, fault, n, saved) ==
    [call |-> IF saved.ok
              THEN [Returned("index_document", doc, fault) EXCEPT !.ret = n]
              ELSE Raised("index_document", doc, fault, saved.error),
     fi |-> fi, iFile |-> saved.iFile, cFile |-> saved.cFile]

\* The rest of index_document after self.index.add_vectors ended as added.
AfterAdd(iFile, cFile, doc, fault, n, added) ==
    IF ~added.ok
    THEN [call |-> Raised("index_document", doc, fault, added.error),
          fi |-> added.fi, iFile |-> iFile, cFile |-> cFile]
    ELSE SaveAndReturn(added.fi, doc, fault, n, Save(added.fi, iFile, cFile, fault))

\* The rest of index_document after process_pdf returned cs.
AfterChunking(fi, iFile, cFile, doc, fault, cs) ==
    AfterAdd(iFile, cFile, doc, fault, Len(cs),
             AddVectors(fi, CreateEmbeddings(cs), cs))

\* index_document: chunk, embed, add, save, return len(chunks).  fault =
\* "pdf" is a document that cannot be opened or read.
IndexDocumentResult(fi, iFile, cFile, doc, fault) ==
    IF fault = "pdf"
    THEN [call |-> Raised("index_document", doc, fault, "ExtractionFailure"),
          fi |-> fi, iFile |-> iFile, cFile |-> cFile]
    ELSE AfterChunking(fi, iFile, cFile, doc, fault, ProcessPdf(doc))

\* The state after a call that ended as r says.
Becomes(r) ==
    /\ index' = r.fi
    /\ indexFile' = r.iFile
    /\ chunksFile' = r.cFile
    /\ lastOp' = r.call

\* Whether n more entries keep the index within max vectors and chunks.
Fits(fi, n, max) == Ntotal(fi.index) + n <= max /\ Len(fi.chunks) + n <= max

IndexDocument(doc, fault) ==
    /\ alive
    /\ Fits(index, Len(ProcessPdf(doc)), MaxChunks)
    /\ Becomes(IndexDocumentResult(index, indexFile, chunksFile, doc, fault))
    /\ prev' = Cleared(lastOp)
    /\ UNCHANGED <<alive, other, pdf>>

\* The prompt of query: the contexts joined by spaces, then the question.
Prompt(contexts, question) ==
    <<"Contexts:", NL>> \o Join(contexts) \o <<NL, NL, "Question: ">>
        \o question \o <<NL, NL, "Answer:">>

\* co.generate(...).generations[0].text: opaque to the program.
Generate(prompt) ==
    <<" ">> \o (IF Len(prompt) % 2 = 0 THEN <<"y">> ELSE <<"n">>) \o <<NL>>

QueryFaults == {"none", "generate"}

\* The rest of query after the contexts have been looked up.
Answered(question, topK, fault, contexts, distances) ==
    IF fault = "generate"
    THEN [Raised("query", question, fault, "GenerationFailure") EXCEPT !.k = topK]
    ELSE [Returned("query", question, fault) EXCEPT
             !.k = topK,
             !.contexts = contexts,
             !.distances = distances,
             !.answer = Strip(Generate(Prompt(contexts, question)))]

\* The rest of query after self.index.search ended as found:
\* contexts = [self.index.chunks[idx] for idx in indices[0]].
LookUp(fi, question, topK, fault, found) ==
    IF ~found.ok
    THEN [Raised("query", question, fault, found.error) EXCEPT !.k = topK]
    ELSE IF \E r \in 1..Len(found.I) : ~PyIndexOk(fi.chunks, found.I[r])
    THEN [Raised("query", question, fault, "IndexError") EXCEPT !.k = topK]
    ELSE Answered(question, topK, fault,
                  [r \in 1..Len(found.I) |-> PyIndex(fi.chunks, found.I[r])],
                  found.D)

\* query: embed the question, search, look the labels up in the chunk
\* list, generate.  The index is only read.
QueryResult(fi, question, topK, fault) ==
    LookUp(fi, question, topK, fault,
           Search(fi, Encode(<<question>>).rows[1], topK))

Query(question, topK, fault) ==
    /\ alive
    /\ lastOp' = QueryResult(index, question, topK, fault)
    /\ prev' = Cleared(lastOp)
    /\ UNCHANGED <<alive, index, indexFile, chunksFile, other, pdf>>

ClearFaults == {"none", "remove_index", "remove_chunks"}

\* ClearIndexResult with the index in memory kept.
ClearIndexKeepsMemory(fi, iFile, cFile, fault) ==
    IF iFile.exists /\ fault = "remove_index"
    THEN [call |-> Raised("clear_index", <<>>, fault, "OSError"),
          fi |-> fi, iFile |-> iFile, cFile |-> cFile]
    ELSE IF cFile.exists /\ fault = "remove_chunks"
    THEN [call |-> Raised("clear_index", <<>>, fault, "OSError"),
          fi |-> fi, iFile |-> AbsentFile, cFile |-> cFile]
    ELSE [call |-> Returned("clear_index", <<>>, fault),
          fi |-> fi, iFile |-> AbsentFile, cFile |-> AbsentFile]

\* clear_index: a new FAISSIndex, then each file is removed if it exists.
\* fault names an os.remove that fails.
ClearIndexResult(fi, iFile, cFile, fault) ==
    IF iFile.exists /\ fault = "remove_index"
    THEN [call |-> Raised("clear_index", <<>>, fault, "OSError"),
          fi |-> NewFAISSIndex, iFile |-> iFile, cFile |-> cFile]
    ELSE IF cFile.exists /\ fault = "remove_chunks"
    THEN [call |-> Raised("clear_index", <<>>, fault, "OSError"),
          fi |-> NewFAISSIndex, iFile |-> AbsentFile, cFile |-> cFile]
    ELSE [call |-> Returned("clear_index", <<>>, fault),
          fi |-> NewFAISSIndex, iFile |-> AbsentFile, cFile |-> AbsentFile]

ClearIndex(fault) ==
    /\ alive
    /\ Becomes(ClearIndexResult(index, indexFile, chunksFile, fault))
    /\ prev' = Cleared(lastOp)
    /\ UNCHANGED <<alive, other, pdf>>

\* A first session on a machine without persisted files.
Init ==
    /\ alive = TRUE
    /\ index = NewFAISSIndex
    /\ indexFile = AbsentFile
    /\ chunksFile = AbsentFile
    /\ other = NewFAISSIndex
    /\ pdf = <<>>
    /\ lastOp = [Returned("construct", <<>>, "none") EXCEPT !.ret = 0]
    /\ prev = "none"

Next ==
    \/ Construct
    \/ Exit
    \/ \E doc \in Docs, fault \in IndexFaults : IndexDocument(doc, fault)
    \/ \E q \in Questions, k \in 0..MaxTopK, fault \in QueryFaults : Query(q, k, fault)
    \/ \E fault \in ClearFaults : ClearIndex(fault)

Spec == Init /\ [][Next]_vars

---------------------------------------------------------------------------
(* FAISSIndex used on its own: add_vectors, search, save and load called   *)
(* directly, load into a second, fresh FAISSIndex.                         *)

\* A FAISSIndex used on its own is not grown beyond this many vectors or
\* this many chunks, and is searched with k in 0..MaxK.
MaxEntries == 2

MaxK == 3

\* The chunk texts handed to add_vectors.
Texts == {<<"a", Quote>>, <<"b", NL, Backslash>>}

ChunkLists == {<<>>} \cup {<<t>> : t \in Texts} \cup {<<t, u>> : t, u \in Texts}

\* An array of n rows of d numbers each.
ArrayOf(n, d) ==
    [shape |-> <<n, d>>, rows |-> [k \in 1..n |-> [i \in 1..d |-> k + i]]]

\* The arrays handed to add_vectors: embeddings of chunk lists, and arrays
\* of another width than the index.
Arrays == {Encode(cs) : cs \in ChunkLists} \cup {ArrayOf(1, dimension + 1)}

\* The number of rows of an array.
Rows(x) == Len(x.rows)

\* The index and the call record after add_vectors ended as added.
Added(vectors, cs, added) ==
    /\ index' = added.fi
    /\ lastOp' = IF added.ok
                 THEN [Returned("add_vectors", cs, "none") EXCEPT
                          !.k = Rows(vectors), !.ret = vectors.shape]
                 ELSE [Raised("add_vectors", cs, "none", added.error) EXCEPT
                          !.k = Rows(vectors), !.ret = vectors.shape]

AddVectorsCall(vectors, cs) ==
    /\ Fits(index, IF Rows(vectors) > Len(cs) THEN Rows(vectors) ELSE Len(cs), MaxEntries)
    /\ Added(vectors, cs, AddVectors(index, vectors, cs))
    /\ prev' = Cleared(lastOp)
    /\ UNCHANGED <<alive, indexFile, chunksFile, other, pdf>>

\* The files and the call record after save ended as saved.
Saved(fault, saved) ==
    /\ indexFile' = saved.iFile
    /\ chunksFile' = saved.cFile
    /\ lastOp' = IF saved.ok THEN Returned("save", <<>>, fault)
                 ELSE Raised("save", <<>>, fault, saved.error)

SaveCall(fault) ==
    /\ Saved(fault, Save(index, indexFile, chunksFile, fault))
    /\ prev' = Cleared(lastOp)
    /\ UNCHANGED <<alive, index, other, pdf>>

\* The fresh FAISSIndex and the call record after load ended as loaded.
Loaded(loaded) ==
    /\ other' = loaded.fi
    /\ lastOp' = IF loaded.ok THEN Returned("load", <<>>, "none")
                 ELSE Raised("load", <<>>, "none", loaded.error)

\* FAISSIndex().load(index_file, chunks_file)
LoadCall ==
    /\ Loaded(Load(NewFAISSIndex, indexFile, chunksFile))
    /\ prev' = Cleared(lastOp)
    /\ UNCHANGED <<alive, index, indexFile, chunksFile, pdf>>

\* The call record after search ended as found.
Searched(q, k, found) ==
    lastOp' = IF found.ok
              THEN [Returned("search", q, "none") EXCEPT
                       !.k = k, !.distances = found.D, !.ret = found.I]
              ELSE [Raised("search", q, "none", found.error) EXCEPT !.k = k]

SearchCall(q, k) ==
    /\ Searched(q, k, Search(index, Embed(q), k))
    /\ prev' = Cleared(lastOp)
    /\ UNCHANGED <<alive, index, indexFile, chunksFile, other, pdf>>

IndexInit ==
    /\ alive = TRUE
    /\ index = NewFAISSIndex
    /\ indexFile = AbsentFile
    /\ chunksFile = AbsentFile
    /\ other = NewFAISSIndex
    /\ pdf = <<>>
    /\ lastOp = NoCall
    /\ prev = "none"

IndexNext ==
    \/ \E x \in Arrays, cs \in ChunkLists : AddVectorsCall(x, cs)
    \/ \E fault \in SaveFaults : SaveCall(fault)
    \/ LoadCall
    \/ \E k \in 0..MaxK : SearchCall(<<"b", NL, Backslash>>, k)

IndexSpec == IndexInit /\ [][IndexNext]_vars

---------------------------------------------------------------------------
(* The chunker on its own: process_pdf applied to documents built from a   *)
(* description, so that what each document consists of is known without    *)
(* splitting it again.                                                     *)

Digits == <<"0", "1", "2", "3", "4", "5", "6", "7", "8", "9">>

\* Character i of word k of a unit: words differ from their neighbours.
WordChar(k, i) == Digits[((k + i) % 10) + 1]

\* A unit is described by its number of words w, the length len of each,
\* and the whitespace between two words: gap copies of the character sep.
\* Its text is words first..last separated that way.
UnitWords(u, first, last, sep, gap) ==
    [p \in 1..((last - first + 1) * u.len + (last - first) * gap) |->
        IF (p - 1) % (u.len + gap) < u.len
        THEN WordChar(first + (p - 1) \div (u.len + gap), ((p - 1) % (u.len + gap)) + 1)
        ELSE sep]

UnitText(u) == IF u.w = 0 THEN <<>> ELSE UnitWords(u, 1, u.w, u.sep, u.gap)

Unit(w, len, sep, gap) == [w |-> w, len |-> len, sep |-> sep, gap |-> gap]

\* Units on both sides of the 512 character and the 100 word boundaries.
BlankUnit == Unit(0, 0, " ", 1)

Units ==
    << BlankUnit,
       Unit(1, 1, " ", 1),       \* one short word
       Unit(3, 2, NL, 1),        \* three words on three lines
       Unit(171, 2, " ", 1),     \* 512 characters
       Unit(250, 1, " ", 1),     \* 499 characters, 250 words
       Unit(257, 1, " ", 1),     \* 513 characters, 257 words
       Unit(86, 5, Tab, 1),      \* 515 characters, 86 words
       Unit(200, 2, " ", 2),     \* 798 characters, 200 words
       Unit(1, 513, " ", 1),     \* one word of 513 characters
       Unit(100, 5, NL, 1) >>    \* 599 characters, 100 words

\* A page is a sequence of units; its text puts a blank line between two
\* units and whitespace around the whole.
RECURSIVE PageBody(_, _)
PageBody(page, k) ==
    IF k > Len(page) THEN <<>>
    ELSE (IF k > 1 THEN <<NL, NL>> ELSE <<>>)
             \o UnitText(Units[page[k]]) \o PageBody(page, k + 1)

PageText(page) == <<" ">> \o PageBody(page, 1) \o <<NL>>

\* The most units on a page and the most pages in a document.
MaxUnits == 2

MaxPages == 2

\* Pages of up to MaxUnits units.
RECURSIVE PagesOf(_)
PagesOf(n) ==
    IF n = 0 THEN {<<>>}
    ELSE PagesOf(n - 1) \cup
         {Append(pg, i) : pg \in {q \in PagesOf(n - 1) : Len(q) = n - 1},
                          i \in 1..Len(Units)}

\* Documents: one page of any kind, or more pages of one unit each taken
\* from the first few kinds.
RECURSIVE ShortDocs(_)
ShortDocs(n) ==
    IF n = 0 THEN {<<>>}
    ELSE ShortDocs(n - 1) \cup
         {Append(d, <<i>>) : d \in {e \in ShortDocs(n - 1) : Len(e) = n - 1},
                             i \in {1, 2, 8}}

Documents == {<<pg>> : pg \in PagesOf(MaxUnits)} \cup ShortDocs(MaxPages)

DocumentText(doc) == [k \in 1..Len(doc) |-> PageText(doc[k])]

\* The call record of process_pdf.
Chunked(doc, cs) == [Returned("process_pdf", doc, "none") EXCEPT !.ret = cs]

ProcessPdfCall ==
    /\ lastOp.op = "none"
    /\ lastOp' = Chunked(DocumentText(pdf), ProcessPdf(DocumentText(pdf)))
    /\ prev' = Cleared(lastOp)
    /\ UNCHANGED <<alive, index, indexFile, chunksFile, other, pdf>>

ChunkInit ==
    /\ alive = TRUE
    /\ index = NewFAISSIndex
    /\ indexFile = AbsentFile
    /\ chunksFile = AbsentFile
    /\ other = NewFAISSIndex
    /\ pdf \in Documents
    /\ lastOp = NoCall
    /\ prev = "none"

ChunkNext == ProcessPdfCall

ChunkSpec == ChunkInit /\ [][ChunkNext]_vars

---------------------------------------------------------------------------
(* The claims.                                                             *)

\* The number of vectors the index file holds and the chunk list the chunks
\* file holds, for files that can be read.
FileVectors == indexFile.data[2]

FileChunks == JsonLoad(chunksFile.data).val

FilesReadable ==
    /\ indexFile.exists /\ ReadableIndex(indexFile.data)
    /\ chunksFile.exists /\ JsonLoad(chunksFile.data).ok

\* The index in memory holds as many vectors as chunks.
Aligned == Ntotal(index.index) = Len(index.chunks)

\* C1: in every state a RAGModel can reach by construction, index_document,
\* query and clear_index calls, failing ones included, the index holds as
\* many vectors as chunks and the vector at position i is the embedding of
\* the chunk at position i.
C1_VectorsMatchChunks ==
    alive =>
        /\ Aligned
        /\ \A i \in 1..Len(index.chunks) : index.index.xb[i] = Embed(index.chunks[i])

\* C2: a query with top_k >= 1 that the generator does not fail returns
\* exactly min(top_k, n) contexts and as many distances, n being the number
\* of chunks in the index; on an empty index it returns none and does not
\* raise.
C2_QueryReturnsMinOfKAndSize ==
    (lastOp.op = "query" /\ lastOp.fault = "none" /\ lastOp.k >= 1 /\ Aligned) =>
        /\ lastOp.status = "ok"
        /\ Len(lastOp.contexts) = Min(lastOp.k, Len(index.chunks))
        /\ Len(lastOp.distances) = Len(lastOp.contexts)

\* C3: after every index_document call that returns, the two files hold the
\* whole index in memory, vectors and chunks in the same order, and the two
\* files hold the same number of entries.
C3_FilesHoldIndexAfterIngestion ==
    (lastOp.op = "index_document" /\ lastOp.status = "ok") =>
        /\ FilesReadable
        /\ ReadIndex(indexFile.data) = index.index
        /\ FileChunks = index.chunks
        /\ FileVectors = Len(FileChunks)

\* C4: after a clear_index that returns, the index in memory is empty and
\* both files are absent; clear_index raises only when a removal of a file
\* that exists fails; and an index_document that returns right after it
\* leaves, in memory and in the files, exactly the chunks of the new
\* document with their embeddings.
C4_ClearThenIngest ==
    /\ (lastOp.op = "clear_index" /\ lastOp.status = "ok") =>
           /\ Ntotal(index.index) = 0
           /\ index.chunks = <<>>
           /\ ~indexFile.exists
           /\ ~chunksFile.exists
    /\ (lastOp.op = "clear_index" /\ lastOp.status = "raised") =>
           \/ lastOp.fault = "remove_index" /\ indexFile.exists
           \/ lastOp.fault = "remove_chunks" /\ chunksFile.exists
    /\ (lastOp.op = "index_document" /\ lastOp.status = "ok" /\ prev = "clear_index") =>
           /\ index.chunks = ProcessPdf(lastOp.arg)
           /\ lastOp.ret = Len(index.chunks)
           /\ Ntotal(index.index) = lastOp.ret
           /\ \A i \in 1..lastOp.ret : index.index.xb[i] = Embed(index.chunks[i])
           /\ FilesReadable
           /\ ReadIndex(indexFile.data) = index.index
           /\ FileChunks = index.chunks

\* An index_document of a document of two chunks has returned right after
\* a clear_index that returned.
C4_Witness ==
    /\ lastOp.op = "index_document"
    /\ lastOp.status = "ok"
    /\ lastOp.arg = DocTwo
    /\ prev = "clear_index"
    /\ Len(index.chunks) = 2

\* C5: a load into a fresh FAISSIndex right after a save that returned
\* succeeds and gives an index whose vectors and whose chunks are, entry
\* by entry, those of the index that was saved.
C5_SaveLoadRoundTrip ==
    (lastOp.op = "load" /\ prev = "save") =>
        /\ lastOp.status = "ok"
        /\ other.index.d = index.index.d
        /\ other.index.xb = index.index.xb
        /\ other.chunks = index.chunks

\* A load has followed the save of an index of two entries, one of whose
\* chunks holds a quote and the other a newline and a backslash.
C5_Witness ==
    /\ lastOp.op = "load"
    /\ prev = "save"
    /\ Ntotal(index.index) = 2
    /\ index.chunks = << <<"a", Quote>>, <<"b", NL, Backslash>> >>
    /\ other = index

\* C6: a construction that loads files whose numbers of vectors and of
\* chunks differ raises; it never leaves an index with differing numbers.
C6_LoadRejectsMismatch ==
    (lastOp.op = "construct" /\ FilesReadable /\ FileVectors # Len(FileChunks)) =>
        lastOp.status = "raised"

\* Whether an array has as many rows as there are chunks and the width of
\* the index.
ShapesAgree(shape, cs) ==
    Len(shape) = 2 /\ shape[1] = Len(cs) /\ shape[2] = index.index.d

\* C7: add_vectors raises when the number of vectors differs from the
\* number of chunks or a vector has not the width of the index, and then
\* changes nothing; when it returns, both collections have grown by the
\* same number of entries.
C7_AddVectorsRejectsMismatch ==
    lastOp.op = "add_vectors" =>
        /\ ~ShapesAgree(lastOp.ret, lastOp.arg) => lastOp.status = "raised"
        /\ lastOp.status = "ok" => lastOp.k = Len(lastOp.arg)

\* C8: a query that returns from an index that is not empty gives contexts
\* that are chunks of the index, with distances that do not decrease, each
\* distance being that of its context's vector to the query vector, and of
\* two contexts at the same distance the one inserted first comes first.
C8_QueryResultsAreNearestChunks ==
    (lastOp.op = "query" /\ lastOp.status = "ok" /\ Aligned /\ Len(index.chunks) > 0) =>
        \E pos \in [1..Len(lastOp.contexts) -> 1..Len(index.chunks)] :
            /\ \A i \in 1..Len(lastOp.contexts) :
                   /\ lastOp.contexts[i] = index.chunks[pos[i]]
                   /\ lastOp.distances[i] =
                          L2Sqr(Embed(lastOp.arg), index.index.xb[pos[i]])
            /\ \A i, j \in 1..Len(lastOp.contexts) :
                   i < j =>
                       /\ lastOp.distances[i] <= lastOp.distances[j]
                       /\ lastOp.distances[i] = lastOp.distances[j] => pos[i] < pos[j]

\* C9: an index_document that the file system does not fail returns the
\* number of chunks of the document, 0 when there are none.
C9_IngestionReturnsChunkCount ==
    (lastOp.op = "index_document" /\ lastOp.fault = "none") =>
        /\ lastOp.status = "ok"
        /\ lastOp.ret = Len(ProcessPdf(lastOp.arg))

\* What the chunker is to give for a unit: nothing for a blank one, the
\* unit itself when it has at most 512 characters, and otherwise its words
\* in groups of 100, each joined by single spaces.
ExpectedOfUnit(u) ==
    IF u.w = 0 THEN <<>>
    ELSE IF u.w * u.len + (u.w - 1) * u.gap <= 512 THEN <<UnitText(u)>>
    ELSE [g \in 1..((u.w + 99) \div 100) |->
             UnitWords(u, (g - 1) * 100 + 1, Min(g * 100, u.w), " ", 1)]

ExpectedOfPage(page) ==
    Flatten([k \in 1..Len(page) |-> ExpectedOfUnit(Units[page[k]])])

ExpectedOfDocument(doc) ==
    Flatten([k \in 1..Len(doc) |-> ExpectedOfPage(doc[k])])

\* C10: process_pdf gives, page by page and unit by unit in the order of
\* the text, each unit of at most 512 characters unchanged and each longer
\* unit as ceil(w / 100) chunks of at most 100 of its w words in their
\* order; blank units and pages give nothing and no chunk is empty.
C10_ChunkerSplitsUnits ==
    lastOp.op = "process_pdf" =>
        /\ lastOp.ret = ExpectedOfDocument(pdf)
        /\ \A i \in 1..Len(lastOp.ret) : lastOp.ret[i] # <<>>

\* A page of a short unit and a unit of 257 words has been chunked into
\* the short unit and three groups of words.
C10_Witness ==
    /\ lastOp.op = "process_pdf"
    /\ pdf = << <<2, 6>> >>
    /\ Len(lastOp.ret) = 4
    /\ Len(lastOp.ret[4]) = 113

=============================================================================
